---- MODULE Spec2Model ----
(***************************************************************************)
(* Authentication and token lifecycle of my_fastapi_template:              *)
(* src/auth/service.py over src/core/base_dao.py, src/core/session.py and  *)
(* src/core/exceptions.py.                                                 *)
(*                                                                         *)
(* The exp claim of a token counts whole units of time (the hour here, so  *)
(* that the access lifetime is one unit); the clock that datetime.now      *)
(* reads is finer, Resolution ticks to the unit.  now is the unit the      *)
(* clock shows; the HTTP requests are served on the unit.  kept is a       *)
(* refresh token a client has held on to, and the number of refreshes and  *)
(* logouts served since.  inflight holds the requests that are served      *)
(* step by step and side by side, each in its own database session.        *)
(* A request handler is one action: FastAPI                                *)
(* opens the request's database session (get_async_session), runs the      *)
(* handler and closes the session when the request ends.  resp is the      *)
(* last HTTP exchange: the request, the status and detail of the response, *)
(* its body, the Set-Cookie headers and the background tasks attached.     *)
(***************************************************************************)
EXTENDS Integers, Sequences, FiniteSets, TLC

VARIABLES store, now, resp, kept, inflight

vars == <<store, now, resp, kept, inflight>>

-----------------------------------------------------------------------------
(* Bounds and input sets *)

MaxTime == 1

(* ticks of the clock in one unit of the exp claim *)
Resolution == 2

(* the longest lifetime, in ticks, a token is minted with on its own *)
MaxDelta == 3

(* refreshes and logouts counted after a refresh token was kept *)
MaxRotations == 2

Emails == {"a@x.com", "b@x.com"}

Passwords == {"pw1", "pw2"}

Salts == {1, 2}

-----------------------------------------------------------------------------
(* Python values *)

None == "None"

NoUser == [none |-> "user"]

NoToken == [none |-> "token"]

NoBody == [none |-> "body"]

Ok(v) == [raised |-> FALSE, value |-> v]

Raise(e) == [raised |-> TRUE, exc |-> e]

-----------------------------------------------------------------------------
(* src/settings.py *)

ACCESS_TOKEN_EXPIRE_MINUTES == 60

REFRESH_TOKEN_EXPIRE_DAYS == 2

EMAIL_VERIFICATION_EXPIRATION_HOURS == 24

-----------------------------------------------------------------------------
(* src/core/exceptions.py *)

HTTPException(status_code, detail) == [status |-> status_code, detail |-> detail]

InvalidCredentialsException == HTTPException(401, "Invalid credentials")

CouldNotValidateCredentialsException == HTTPException(401, "Could not validate credentials")

InvalidRefreshTokenException == HTTPException(401, "Invalid refresh token")

VerificationRequiredException == HTTPException(403, "Verification required")

InvalidTokenTypeException == HTTPException(400, "Invalid token type")

InvalidTokenPayloadException == HTTPException(400, "Invalid token payload")

TokenExpiredException == HTTPException(400, "Token expired")

UserExistsException == HTTPException(409, "User already exists")

UserNotFoundException == HTTPException(404, "User not found")

(* an exception no handler catches: the server answers 500 *)
InternalServerError == HTTPException(500, "Internal Server Error")

(* OAuth2PasswordBearer with no bearer Authorization header *)
NotAuthenticated == HTTPException(401, "Not authenticated")

-----------------------------------------------------------------------------
(* Credential store: src/users/models.py, src/core/base_dao.py,            *)
(* src/core/session.py.  A session is the request's view of the users      *)
(* table: the committed rows plus the rows it has flushed itself.          *)

UserRow(id, email, password, is_superuser, is_verified) ==
    [id |-> id, email |-> email, password |-> password,
     is_superuser |-> is_superuser, is_verified |-> is_verified]

(* BaseDAO.get_first filtered on User.email, which is how every caller in *)
(* src/auth/service.py uses it (filters=[FilterCondition(User.email ==    *)
(* email)]): the row with that email, or None                             *)
get_first(session, email) ==
    IF \E u \in session : u.email = email
    THEN CHOOSE u \in session : u.email = email
    ELSE NoUser

NextId(session) ==
    IF session = {} THEN 1
    ELSE 1 + CHOOSE m \in {u.id : u \in session} : \A u \in session : u.id <= m

(* BaseDAO.create: add, flush, refresh.  The flush runs the INSERT, which  *)
(* the unique constraint on email rejects with an IntegrityError.          *)
(* variant: the row is inserted as already verified *)
DAO_create_verified(session, email, password) ==
    IF \E u \in session : u.email = email
    THEN [raised |-> TRUE, exc |-> InternalServerError, session |-> session]
    ELSE LET instance == UserRow(NextId(session), email, password, FALSE, TRUE)
         IN  [raised |-> FALSE, value |-> instance,
              session |-> session \cup {instance}]

DAO_create(session, email, password) ==
    IF \E u \in session : u.email = email
    THEN [raised |-> TRUE, exc |-> InternalServerError, session |-> session]
    ELSE LET instance == UserRow(NextId(session), email, password, FALSE, FALSE)
         IN  [raised |-> FALSE, value |-> instance,
              session |-> session \cup {instance}]

(* variant: the UPDATE has no WHERE clause on the primary key *)
DAO_update_all(session, instance) ==
    { [u EXCEPT !.is_verified = instance.is_verified] : u \in session }

(* BaseDAO.update: merge by primary key, flush, refresh *)
DAO_update(session, instance) ==
    {u \in session : u.id # instance.id} \cup {instance}

(* get_async_session: `async with async_session_maker() as session: yield  *)
(* session`.  The session is closed when the request ends; neither the     *)
(* dependency, the handlers nor BaseDAO (flush and refresh only) commit,   *)
(* so what the request flushed is rolled back.                             *)
get_async_session_close(committed, session) == committed

-----------------------------------------------------------------------------
(* Password hasher: passlib CryptContext(schemes=["bcrypt"]) *)

pwd_context_hash(password, salt) == <<"bcrypt", salt, password>>

pwd_context_verify(plain_password, hashed_password) ==
    pwd_context_hash(plain_password, hashed_password[2]) = hashed_password

get_password_hash(password, salt) == pwd_context_hash(password, salt)

(* variant: the empty hash is handed to passlib, which cannot identify it *)
verify_password_unguarded(plain_password, hashed_password) ==
    IF hashed_password = <<>>
    THEN Raise(InternalServerError)
    ELSE Ok(pwd_context_verify(plain_password, hashed_password))

verify_password(plain_password, hashed_password) ==
    IF hashed_password = <<>>
    THEN Raise(InvalidCredentialsException)
    ELSE Ok(pwd_context_verify(plain_password, hashed_password))

-----------------------------------------------------------------------------
(* Token codec: PyJWT with settings.auth.JWT_SECRET_KEY.  A token is its   *)
(* payload and the state of its signature; Garbage is a string that is     *)
(* not a JWT at all.                                                       *)

(* datetime.datetime.now(datetime.timezone.utc), in ticks, when the clock  *)
(* shows unit t and frac ticks more                                       *)
datetime_now(t, frac) == t * Resolution + frac

(* datetime.timedelta of whole units, in ticks *)
timedelta(units) == units * Resolution

(* int(timedelta.total_seconds()): the whole units of a timedelta *)
total_seconds(delta) == delta \div Resolution

(* jwt.encode turns a datetime claim into a NumericDate with              *)
(* timegm(utctimetuple()), which drops the fraction of the unit           *)
timegm(dt) == dt \div Resolution

(* jwt.encode of a payload whose exp is a datetime *)
jwt_encode(payload) ==
    [sig |-> "valid", payload |-> [payload EXCEPT !.exp = timegm(@)]]

Garbage == [sig |-> "malformed", payload |-> [raw |-> "garbage"]]

(* variant: the exp claim is given a leeway of one unit *)
jwt_decode_leeway(token, t) ==
    IF token.sig = "malformed" THEN Raise("DecodeError")
    ELSE IF token.sig # "valid" THEN Raise("InvalidSignatureError")
    ELSE IF "exp" \in DOMAIN token.payload
            /\ token.payload.exp * Resolution < t - Resolution
         THEN Raise("ExpiredSignatureError")
    ELSE Ok(token.payload)

(* jwt.decode when datetime.now is t ticks: structure, then signature,     *)
(* then the exp claim against the clock                                   *)
jwt_decode(token, t) ==
    IF token.sig = "malformed" THEN Raise("DecodeError")
    ELSE IF token.sig # "valid" THEN Raise("InvalidSignatureError")
    ELSE IF "exp" \in DOMAIN token.payload /\ token.payload.exp * Resolution <= t
         THEN Raise("ExpiredSignatureError")
    ELSE Ok(token.payload)

(* variant: ExpiredSignatureError is not counted among the invalid tokens *)
InvalidTokenError_unexpired == {"DecodeError", "InvalidSignatureError"}

(* the exception classes of jwt.exceptions below InvalidTokenError *)
InvalidTokenError == {"DecodeError", "InvalidSignatureError", "ExpiredSignatureError"}

(* dict.get *)
payload_get(payload, key) == IF key \in DOMAIN payload THEN payload[key] ELSE None

access_token_expires == ACCESS_TOKEN_EXPIRE_MINUTES \div 60

refresh_token_expires == REFRESH_TOKEN_EXPIRE_DAYS * 24

email_verification_expires == EMAIL_VERIFICATION_EXPIRATION_HOURS

create_access_token(data, expires_delta, t) ==
    jwt_encode([sub |-> data.sub, exp |-> t + expires_delta])

(* variant: the refresh token is minted without the data it was given *)
create_refresh_token_no_data(data, expires_delta, t) ==
    jwt_encode([exp |-> t + expires_delta])

create_refresh_token(data, expires_delta, t) ==
    jwt_encode([sub |-> data.sub, exp |-> t + expires_delta])

(* variant: the lifetime handed in is ignored for the configured one *)
create_email_verification_token_default(email, expires_delta, t) ==
    jwt_encode([sub |-> email, verify |-> TRUE,
                exp |-> t + timedelta(EMAIL_VERIFICATION_EXPIRATION_HOURS)])

create_email_verification_token(email, expires_delta, t) ==
    jwt_encode([sub |-> email, verify |-> TRUE, exp |-> t + expires_delta])

create_tokens(user, t) ==
    [access_token |-> create_access_token([sub |-> user.email],
                                          timedelta(access_token_expires), t),
     refresh_token |-> create_refresh_token([sub |-> user.email],
                                            timedelta(refresh_token_expires), t),
     token_type |-> "bearer",
     access_token_expires |-> total_seconds(timedelta(access_token_expires)),
     refresh_token_expires |-> total_seconds(timedelta(refresh_token_expires))]

(* response.set_cookie / response.delete_cookie headers; max_age is in the *)
(* model's time unit                                                      *)
set_cookie(key, value, max_age) ==
    [key |-> key, value |-> value, max_age |-> max_age]

delete_cookie(key) == [key |-> key, value |-> NoToken, max_age |-> 0]

(* variant: the max-ages of the two cookies are exchanged *)
set_cookies_swapped(access_token, refresh_token, access_expires, refresh_expires) ==
    << set_cookie("access_token", access_token, refresh_expires),
       set_cookie("refresh_token", refresh_token, access_expires) >>

set_cookies(access_token, refresh_token, access_expires, refresh_expires) ==
    << set_cookie("access_token", access_token, access_expires),
       set_cookie("refresh_token", refresh_token, refresh_expires) >>

(* pydantic views of a user row *)
UserLoginOutput(user) ==
    [id |-> user.id, email |-> user.email, is_verified |-> user.is_verified]

CurrentUser(user) ==
    [id |-> user.id, email |-> user.email, is_verified |-> user.is_verified,
     is_superuser |-> user.is_superuser]

TokenOutput(tokens, user_data) ==
    [access_token |-> tokens.access_token, refresh_token |-> tokens.refresh_token,
     token_type |-> tokens.token_type, user_data |-> user_data]

-----------------------------------------------------------------------------
(* What a handler leaves behind: the HTTP response and its session *)

Success(status, body, cookies, tasks, session) ==
    [status |-> status, detail |-> "", body |-> body, cookies |-> cookies,
     tasks |-> tasks, session |-> session]

(* an HTTPException leaves the handler: FastAPI answers {detail} with the  *)
(* exception's status; cookies set on the injected response are dropped    *)
Fail(exc, session) ==
    [status |-> exc.status, detail |-> exc.detail, body |-> NoBody,
     cookies |-> <<>>, tasks |-> <<>>, session |-> session]

-----------------------------------------------------------------------------
(* src/auth/service.py *)

check_user_exists(session, user_data) ==
    IF get_first(session, user_data.email) # NoUser
    THEN Raise(UserExistsException)
    ELSE Ok(None)

(* variant: authentication also demands a verified account *)
authenticate_user_verified_only(session, email, password) ==
    LET user == get_first(session, email)
    IN  IF user = NoUser THEN Raise(InvalidCredentialsException)
        ELSE LET v == verify_password(password, user.password)
             IN  IF v.raised THEN v
                 ELSE IF ~v.value THEN Raise(InvalidCredentialsException)
                 ELSE IF ~user.is_verified THEN Raise(VerificationRequiredException)
                 ELSE Ok(UserLoginOutput(user))

authenticate_user(session, email, password) ==
    LET user == get_first(session, email)
    IN  IF user = NoUser THEN Raise(InvalidCredentialsException)
        ELSE LET v == verify_password(password, user.password)
             IN  IF v.raised THEN v
                 ELSE IF ~v.value THEN Raise(InvalidCredentialsException)
                 ELSE Ok(UserLoginOutput(user))

(* OAuth2PasswordBearer(tokenUrl="/auth/login"): the bearer token of the   *)
(* Authorization header                                                    *)
oauth2_scheme(request) ==
    IF request.authorization = NoToken
    THEN Raise(NotAuthenticated)
    ELSE Ok(request.authorization)

(* variant: an unknown subject is reported as a missing user *)
get_current_user_not_found(token, session, t) ==
    LET credentials_exception == CouldNotValidateCredentialsException
        d == jwt_decode(token, t)
    IN  IF d.raised
        THEN IF d.exc \in InvalidTokenError THEN Raise(credentials_exception)
             ELSE Raise(InternalServerError)
        ELSE LET email == payload_get(d.value, "sub")
             IN  IF email = None THEN Raise(credentials_exception)
                 ELSE LET user == get_first(session, email)
                      IN  IF user = NoUser THEN Raise(UserNotFoundException)
                          ELSE Ok(CurrentUser(user))

get_current_user(token, session, t) ==
    LET credentials_exception == CouldNotValidateCredentialsException
        d == jwt_decode(token, t)
    IN  IF d.raised
        THEN IF d.exc \in InvalidTokenError THEN Raise(credentials_exception)
             ELSE Raise(InternalServerError)
        ELSE LET email == payload_get(d.value, "sub")
             IN  IF email = None THEN Raise(credentials_exception)
                 ELSE LET user == get_first(session, email)
                      IN  IF user = NoUser THEN Raise(credentials_exception)
                          ELSE Ok(CurrentUser(user))

(* variant: the gate lets every resolved user through *)
get_current_verified_user_ungated(current_user) == Ok(current_user)

get_current_verified_user(current_user) ==
    IF current_user.is_verified = FALSE
    THEN Raise(VerificationRequiredException)
    ELSE Ok(current_user)

(* background task send_verification_email(email, token) *)
send_verification_email(email, token) == [email |-> email, token |-> token]

register_user(user_data, session, salt, t) ==
    LET chk == check_user_exists(session, user_data)
    IN  IF chk.raised THEN Fail(chk.exc, session)
        ELSE LET hashed_password == get_password_hash(user_data.password, salt)
                 created == DAO_create(session, user_data.email, hashed_password)
             IN  IF created.raised THEN Fail(created.exc, created.session)
                 ELSE LET token == create_email_verification_token(
                                       user_data.email,
                                       timedelta(email_verification_expires), t)
                      IN  Success(201, NoBody, <<>>,
                                  <<send_verification_email(user_data.email, token)>>,
                                  created.session)

(* variant: a login marks the account in the users table *)
login_user_marking(session, form_data, t) ==
    LET auth == authenticate_user(session, form_data.username, form_data.password)
    IN  IF auth.raised THEN Fail(auth.exc, session)
        ELSE LET user == auth.value
                 tokens == create_tokens(user, t)
                 row == get_first(session, user.email)
             IN  Success(200, TokenOutput(tokens, user),
                         set_cookies(tokens.access_token, tokens.refresh_token,
                                     tokens.access_token_expires,
                                     tokens.refresh_token_expires),
                         <<>>, DAO_update(session, [row EXCEPT !.is_superuser = TRUE]))

login_user(session, form_data, t) ==
    LET auth == authenticate_user(session, form_data.username, form_data.password)
    IN  IF auth.raised THEN Fail(auth.exc, session)
        ELSE LET user == auth.value
                 tokens == create_tokens(user, t)
             IN  Success(200, TokenOutput(tokens, user),
                         set_cookies(tokens.access_token, tokens.refresh_token,
                                     tokens.access_token_expires,
                                     tokens.refresh_token_expires),
                         <<>>, session)

(* variant: only the access cookie is deleted *)
logout_user_access_only ==
    << delete_cookie("access_token") >>

logout_user ==
    << delete_cookie("access_token"), delete_cookie("refresh_token") >>

(* variant: the presented refresh token is handed back, not a new one *)
refresh_user_token_unrotated(session, request, t) ==
    LET wrong_credentials == InvalidRefreshTokenException
        refresh_token == request.cookies.refresh_token
    IN  IF refresh_token = NoToken THEN Fail(wrong_credentials, session)
        ELSE LET d == jwt_decode(refresh_token, t)
             IN  IF d.raised
                 THEN IF d.exc \in InvalidTokenError
                      THEN Fail(wrong_credentials, session)
                      ELSE Fail(InternalServerError, session)
                 ELSE LET email == payload_get(d.value, "sub")
                          user == get_first(session, email)
                      IN  IF user = NoUser
                          THEN Fail(InternalServerError, session)
                          ELSE LET new_tokens ==
                                       [create_tokens(user, t) EXCEPT
                                            !.refresh_token = refresh_token]
                               IN  Success(200,
                                       TokenOutput(new_tokens, UserLoginOutput(user)),
                                       set_cookies(new_tokens.access_token,
                                                   new_tokens.refresh_token,
                                                   new_tokens.access_token_expires,
                                                   new_tokens.refresh_token_expires),
                                       <<>>, session)

refresh_user_token(session, request, t) ==
    LET wrong_credentials == InvalidRefreshTokenException
        refresh_token == request.cookies.refresh_token
    IN  IF refresh_token = NoToken THEN Fail(wrong_credentials, session)
        ELSE LET d == jwt_decode(refresh_token, t)
             IN  IF d.raised
                 THEN IF d.exc \in InvalidTokenError
                      THEN Fail(wrong_credentials, session)
                      ELSE Fail(InternalServerError, session)
                 ELSE LET email == payload_get(d.value, "sub")
                          user == get_first(session, email)
                      IN  IF user = NoUser
                          THEN \* create_tokens(None): AttributeError on user.email
                               Fail(InternalServerError, session)
                          ELSE LET new_tokens == create_tokens(user, t)
                               IN  Success(200,
                                       TokenOutput(new_tokens, UserLoginOutput(user)),
                                       set_cookies(new_tokens.access_token,
                                                   new_tokens.refresh_token,
                                                   new_tokens.access_token_expires,
                                                   new_tokens.refresh_token_expires),
                                       <<>>, session)

(* variant: the verify claim is not looked at *)
payload_verify_unchecked(payload) == TRUE

(* `not payload.get("verify")` is false only for a truthy verify claim *)
payload_verify(payload) == "verify" \in DOMAIN payload /\ payload.verify = TRUE

(* variant: the clause for InvalidTokenError comes first and also catches *)
(* its subclass ExpiredSignatureError                                    *)
verify_email_except_swapped(exc) ==
    IF exc \in InvalidTokenError THEN InvalidTokenTypeException
    ELSE IF exc = "ExpiredSignatureError" THEN TokenExpiredException
    ELSE InternalServerError

(* the except clauses of verify_email, in the order they are written *)
verify_email_except(exc) ==
    IF exc = "ExpiredSignatureError" THEN TokenExpiredException
    ELSE IF exc \in InvalidTokenError THEN InvalidTokenTypeException
    ELSE InternalServerError

(* variant: the row is used without the check that it was found *)
verify_email_user_unchecked(token, session, t) ==
    LET d == jwt_decode(token, t)
    IN  IF d.raised THEN Fail(verify_email_except(d.exc), session)
        ELSE IF ~payload_verify(d.value) THEN Fail(InvalidTokenTypeException, session)
        ELSE LET email == payload_get(d.value, "sub")
             IN  IF email = None THEN Fail(InvalidTokenPayloadException, session)
                 ELSE LET user == get_first(session, email)
                      IN  IF user = NoUser THEN Fail(InternalServerError, session)
                          ELSE Success(200, NoBody, <<>>, <<>>,
                                   DAO_update(session, [user EXCEPT !.is_verified = TRUE]))

(* variant: the subject claim is not checked before the lookup *)
verify_email_subject_unchecked(token, session, t) ==
    LET d == jwt_decode(token, t)
    IN  IF d.raised THEN Fail(verify_email_except(d.exc), session)
        ELSE IF ~payload_verify(d.value) THEN Fail(InvalidTokenTypeException, session)
        ELSE LET email == payload_get(d.value, "sub")
                 user == get_first(session, email)
             IN  IF user = NoUser THEN Fail(UserNotFoundException, session)
                 ELSE Success(200, NoBody, <<>>, <<>>,
                          DAO_update(session, [user EXCEPT !.is_verified = TRUE]))

verify_email(token, session, t) ==
    LET d == jwt_decode(token, t)
    IN  IF d.raised THEN Fail(verify_email_except(d.exc), session)
        ELSE IF ~payload_verify(d.value) THEN Fail(InvalidTokenTypeException, session)
        ELSE LET email == payload_get(d.value, "sub")
             IN  IF email = None THEN Fail(InvalidTokenPayloadException, session)
                 ELSE LET user == get_first(session, email)
                      IN  IF user = NoUser THEN Fail(UserNotFoundException, session)
                          ELSE Success(200, NoBody, <<>>, <<>>,
                                   DAO_update(session, [user EXCEPT !.is_verified = TRUE]))

(* GET /users/profile/me: CurrentUserDep = Depends(get_current_verified_user) *)
get_user_handler(request, session, t) ==
    LET token == oauth2_scheme(request)
    IN  IF token.raised THEN Fail(token.exc, session)
        ELSE LET current_user == get_current_user(token.value, session, t)
             IN  IF current_user.raised THEN Fail(current_user.exc, session)
                 ELSE LET verified == get_current_verified_user(current_user.value)
                      IN  IF verified.raised THEN Fail(verified.exc, session)
                          ELSE Success(200, verified.value, <<>>, <<>>, session)

-----------------------------------------------------------------------------
(* Inputs *)

(* the users table as the service finds it: rows satisfying the table's    *)
(* constraints (unique email, primary key id), each with a bcrypt hash or  *)
(* an empty password, any flags                                            *)
SeedId(email) == IF email = "a@x.com" THEN 1 ELSE 2

(* the kinds of account: unverified, verified, superuser, no password set *)
SeedProfiles ==
    { [password |-> pwd_context_hash("pw1", 1), is_superuser |-> FALSE, is_verified |-> FALSE],
      [password |-> pwd_context_hash("pw1", 1), is_superuser |-> FALSE, is_verified |-> TRUE],
      [password |-> pwd_context_hash("pw1", 1), is_superuser |-> TRUE, is_verified |-> TRUE],
      [password |-> <<>>, is_superuser |-> FALSE, is_verified |-> FALSE] }

SeedRows ==
    { UserRow(SeedId(e), e, k.password, k.is_superuser, k.is_verified) :
        e \in Emails, k \in SeedProfiles }

Stores ==
    { S \in SUBSET SeedRows : \A u1, u2 \in S : u1.email = u2.email => u1 = u2 }

(* the claims a client can present at time t, around the expiry boundary   *)
(* and with the lifetimes the service mints                                *)
ExpChoices(t) ==
    {t - 1, t, t + access_token_expires, t + refresh_token_expires}

PayloadChoices(t) ==
    UNION { { [sub |-> e, exp |-> x],
              [sub |-> e, verify |-> TRUE, exp |-> x] } :
            e \in Emails, x \in ExpChoices(t) }
    \cup UNION { { [exp |-> x], [verify |-> TRUE, exp |-> x] } : x \in ExpChoices(t) }

(* a forged signature is tried on the expired and the unexpired payloads   *)
TokenChoices(t) ==
    { [sig |-> "valid", payload |-> p] : p \in PayloadChoices(t) }
    \cup { [sig |-> "bad", payload |-> p] :
             p \in {q \in PayloadChoices(t) : q.exp \in {t - 1, t + access_token_expires}} }
    \cup {Garbage}

(* how a client carries an access token: Authorization header, cookie, both *)
AccessRequests(t) ==
    { [authorization |-> h, cookies |-> [access_token |-> c]] :
        h \in TokenChoices(t) \cup {NoToken}, c \in {NoToken} }
    \cup { [authorization |-> NoToken, cookies |-> [access_token |-> c]] :
             c \in TokenChoices(t) }
    \cup { [authorization |-> c, cookies |-> [access_token |-> c]] :
             c \in TokenChoices(t) }

(* the cookies a client may hold when it logs out: none, junk, an expired *)
(* pair, a live pair                                                     *)
LogoutRequests(t) ==
    { [cookies |-> [access_token |-> c, refresh_token |-> c]] :
        c \in { NoToken, Garbage,
                [sig |-> "valid", payload |-> [sub |-> "a@x.com", exp |-> t - 1]],
                [sig |-> "valid",
                 payload |-> [sub |-> "a@x.com", exp |-> t + access_token_expires]] } }

-----------------------------------------------------------------------------
(* State machine *)

NoExchange ==
    [op |-> "none", req |-> NoBody, at |-> 0, status |-> 0, detail |-> "",
     body |-> NoBody, cookies |-> <<>>, tasks |-> <<>>]

(* the requests that can be in flight side by side *)
Slots == {1, 2}

(* a slot with no request in it *)
Idle ==
    [op |-> "none", req |-> NoBody, pc |-> "idle", session |-> {}, open |-> FALSE,
     hashed |-> <<>>, status |-> 0, detail |-> "", tasks |-> <<>>,
     delivery |-> "none"]

NoRequests == [i \in Slots |-> Idle]

(* no refresh token kept *)
NoKept == [token |-> NoToken, since |-> 0]

Init ==
    /\ store \in Stores
    /\ now = 0
    /\ resp = NoExchange
    /\ kept = NoKept
    /\ inflight = NoRequests

(* the exchange of one request served at time t: r is what the handler   *)
(* left behind, session the users table as the request's session saw it  *)
(* when the handler returned                                              *)
HttpExchange(op, req, r, t) ==
    [op |-> op, req |-> req, at |-> t, status |-> r.status,
     detail |-> r.detail, body |-> r.body, cookies |-> r.cookies,
     tasks |-> r.tasks, session |-> r.session]

(* POST /auth/register *)
Register ==
    \E e \in Emails, p \in Passwords, salt \in Salts :
        LET user_data == [email |-> e, password |-> p]
            r == register_user(user_data, store, salt, datetime_now(now, 0))
        IN  /\ resp' = HttpExchange("register", user_data, r, now)
            /\ store' = get_async_session_close(store, r.session)
            /\ now' = now
            /\ kept' = kept
            /\ inflight' = inflight

(* POST /auth/login *)
Login ==
    \E e \in Emails, p \in Passwords :
        LET form_data == [username |-> e, password |-> p]
            r == login_user(store, form_data, datetime_now(now, 0))
        IN  /\ resp' = HttpExchange("login", form_data, r, now)
            /\ store' = get_async_session_close(store, r.session)
            /\ now' = now
            /\ kept' = kept
            /\ inflight' = inflight

(* POST /auth/refresh *)
Refresh ==
    \E c \in TokenChoices(now) \cup {NoToken} :
        LET request == [cookies |-> [refresh_token |-> c]]
            r == refresh_user_token(store, request, datetime_now(now, 0))
        IN  /\ resp' = HttpExchange("refresh", request, r, now)
            /\ store' = get_async_session_close(store, r.session)
            /\ now' = now
            /\ kept' = kept
            /\ inflight' = inflight

(* POST /auth/logout: the handler takes the response only, neither the    *)
(* request nor a session                                                  *)
Logout ==
    \E request \in LogoutRequests(now) :
        /\ resp' = HttpExchange("logout", request,
                                Success(204, NoBody, logout_user, <<>>, store), now)
        /\ UNCHANGED <<store, now, kept, inflight>>

(* GET /auth/verify?token=... *)
VerifyEmail ==
    \E token \in TokenChoices(now) :
        LET r == verify_email(token, store, datetime_now(now, 0))
        IN  /\ resp' = HttpExchange("verify", [token |-> token], r, now)
            /\ store' = get_async_session_close(store, r.session)
            /\ now' = now
            /\ kept' = kept
            /\ inflight' = inflight

(* GET /users/profile/me *)
Profile ==
    \E request \in AccessRequests(now) :
        LET r == get_user_handler(request, store, datetime_now(now, 0))
        IN  /\ resp' = HttpExchange("profile", request, r, now)
            /\ store' = get_async_session_close(store, r.session)
            /\ now' = now
            /\ kept' = kept
            /\ inflight' = inflight

(* the clock advances *)
Tick ==
    /\ now < MaxTime
    /\ now' = now + 1
    /\ UNCHANGED <<store, resp, kept, inflight>>

Next ==
    \/ Register
    \/ Login
    \/ Refresh
    \/ Logout
    \/ VerifyEmail
    \/ Profile
    \/ Tick

Spec == Init /\ [][Next]_vars

(* A client that holds on to a refresh token.  At the start it may hold   *)
(* one the service minted for a stored user a refresh lifetime less one   *)
(* unit ago; otherwise it keeps the first one a Login or a Refresh hands  *)
(* it, and goes on logging in, refreshing and logging out.                *)
SessionInit ==
    /\ store \in Stores
    /\ now = 0
    /\ resp = NoExchange
    /\ kept \in {NoKept} \cup
                { [token |-> create_refresh_token(
                                 [sub |-> u.email], timedelta(refresh_token_expires),
                                 datetime_now(1 - refresh_token_expires, 0)),
                   since |-> 0] : u \in store }
    /\ inflight = NoRequests

SessionLogin ==
    \E e \in Emails, p \in Passwords :
        LET form_data == [username |-> e, password |-> p]
            r == login_user(store, form_data, datetime_now(now, 0))
        IN  /\ resp' = HttpExchange("login", form_data, r, now)
            /\ store' = get_async_session_close(store, r.session)
            /\ now' = now
            /\ inflight' = inflight
            /\ kept' = IF r.status = 200 /\ kept.token = NoToken
                       THEN [token |-> r.body.refresh_token, since |-> 0]
                       ELSE kept

SessionRefresh ==
    \E c \in TokenChoices(now) \cup {NoToken, kept.token} :
        LET request == [cookies |-> [refresh_token |-> c]]
            r == refresh_user_token(store, request, datetime_now(now, 0))
        IN  /\ resp' = HttpExchange("refresh", request, r, now)
            /\ store' = get_async_session_close(store, r.session)
            /\ now' = now
            /\ inflight' = inflight
            /\ kept' = IF r.status # 200 THEN kept
                       ELSE IF kept.token = NoToken
                       THEN [token |-> r.body.refresh_token, since |-> 0]
                       ELSE [kept EXCEPT
                                !.since = IF @ < MaxRotations THEN @ + 1 ELSE @]

SessionLogout ==
    \E request \in LogoutRequests(now) :
        /\ resp' = HttpExchange("logout", request,
                                Success(204, NoBody, logout_user, <<>>, store), now)
        /\ UNCHANGED <<store, now, inflight>>
        /\ kept' = IF kept.token = NoToken THEN kept
                   ELSE [kept EXCEPT
                            !.since = IF @ < MaxRotations THEN @ + 1 ELSE @]

SessionNext ==
    \/ SessionLogin
    \/ SessionRefresh
    \/ SessionLogout
    \/ Tick

SpecSession == SessionInit /\ [][SessionNext]_vars

(* The token codec on its own: create_email_verification_token is called  *)
(* for an email and a lifetime at any tick of the clock, and the token is *)
(* decoded at that tick or a later one.                                   *)
Lifetimes == 0..MaxDelta

CodecInit ==
    /\ store = {}
    /\ now = 0
    /\ resp = NoExchange
    /\ kept = NoKept
    /\ inflight = NoRequests

CodecCreate ==
    \E email \in Emails, expires_delta \in Lifetimes, frac \in 0..(Resolution - 1) :
        LET utcnow == datetime_now(now, frac)
        IN  /\ resp.op \in {"create", "decode"} => resp.req.utcnow <= utcnow
            /\ resp' = [op |-> "create",
                        req |-> [email |-> email, expires_delta |-> expires_delta,
                                 utcnow |-> utcnow],
                        at |-> now, status |-> 0, detail |-> "",
                        body |-> create_email_verification_token(
                                     email, expires_delta, utcnow),
                        cookies |-> <<>>, tasks |-> <<>>]
            /\ UNCHANGED <<store, now, kept, inflight>>

CodecDecode ==
    \E frac \in 0..(Resolution - 1) :
        LET utcnow == datetime_now(now, frac)
            made == IF resp.op = "create"
                    THEN [token |-> resp.body, email |-> resp.req.email,
                          expires_delta |-> resp.req.expires_delta,
                          created |-> resp.req.utcnow]
                    ELSE [token |-> resp.req.token, email |-> resp.req.email,
                          expires_delta |-> resp.req.expires_delta,
                          created |-> resp.req.created]
        IN  /\ resp.op \in {"create", "decode"}
            /\ resp.req.utcnow <= utcnow
            /\ resp' = [op |-> "decode",
                        req |-> [token |-> made.token, email |-> made.email,
                                 expires_delta |-> made.expires_delta,
                                 created |-> made.created, utcnow |-> utcnow],
                        at |-> now, status |-> 0, detail |-> "",
                        body |-> jwt_decode(made.token, utcnow),
                        cookies |-> <<>>, tasks |-> <<>>]
            /\ UNCHANGED <<store, now, kept, inflight>>

CodecNext ==
    \/ CodecCreate
    \/ CodecDecode
    \/ Tick

SpecCodec == CodecInit /\ [][CodecNext]_vars

(* Requests served step by step.  Each request has its own session on    *)
(* the users table (PostgreSQL, read committed): it sees the committed    *)
(* rows and its own flushed ones.  When the handler has returned the      *)
(* response is sent and then the background tasks run; the session is     *)
(* closed before the response is sent or after the tasks, as the FastAPI  *)
(* in use has it.                                                         *)

(* the rows a request has flushed and not committed *)
Uncommitted(q) == IF q.open THEN q.session \ store ELSE {}

(* the rows the requests in flight other than i have flushed *)
OthersUncommitted(i) == UNION { Uncommitted(inflight[j]) : j \in Slots \ {i} }

(* variant: the INSERT does not wait for the other transactions *)
unique_index_free_unlocked(email, pending) == TRUE

(* UniqueConstraint('email'): an INSERT waits while another open          *)
(* transaction holds a flushed row with the same email                    *)
unique_index_free(email, pending) == \A u \in pending : u.email # email

(* the row lock of an UPDATE: it waits while another open transaction     *)
(* holds a flushed change of the row                                      *)
row_lock_free(id, pending) == \A u \in pending : u.id # id

(* variant: an exception of aiosmtplib.send leaves send_email *)
send_email_unguarded(recipient, smtp) ==
    IF smtp = "accepted" THEN "delivered" ELSE "raised"

(* send_email: aiosmtplib.send inside try/except Exception, which logs *)
send_email(recipient, smtp) ==
    IF smtp = "accepted" THEN "delivered" ELSE "logged"

(* an HTTPException leaves the handler *)
raise_exception(q, exc) ==
    [q EXCEPT !.pc = "respond", !.status = exc.status, !.detail = exc.detail]

register_begin(user_data, session) ==
    [op |-> "register", req |-> user_data, pc |-> "check", session |-> session,
     open |-> TRUE, hashed |-> <<>>, status |-> 0, detail |-> "", tasks |-> <<>>,
     delivery |-> "none"]

(* variant: the verification email is scheduled for a rejected request too *)
register_check_scheduling(q, t) ==
    LET chk == check_user_exists(q.session, q.req)
    IN  IF chk.raised
        THEN [raise_exception(q, chk.exc) EXCEPT
                 !.tasks = <<send_verification_email(
                                 q.req.email,
                                 create_email_verification_token(
                                     q.req.email,
                                     timedelta(email_verification_expires), t))>>]
        ELSE [q EXCEPT !.pc = "hash"]

(* register_user, step 1 *)
register_check(q, t) ==
    LET chk == check_user_exists(q.session, q.req)
    IN  IF chk.raised THEN raise_exception(q, chk.exc)
        ELSE [q EXCEPT !.pc = "hash"]

(* register_user, step 2 *)
register_hash(q, salt) ==
    [q EXCEPT !.hashed = get_password_hash(q.req.password, salt), !.pc = "create"]

(* register_user, step 3 *)
register_create(q) ==
    LET created == DAO_create(q.session, q.req.email, q.hashed)
    IN  IF created.raised THEN raise_exception(q, created.exc)
        ELSE [q EXCEPT !.session = created.session, !.pc = "schedule"]

(* register_user, steps 4 and 5; the route answers 201 *)
register_schedule(q, t) ==
    LET token == create_email_verification_token(
                     q.req.email, timedelta(email_verification_expires), t)
    IN  [q EXCEPT !.tasks = Append(@, send_verification_email(q.req.email, token)),
                  !.delivery = "pending", !.status = 201, !.pc = "respond"]

verify_begin(token, session) ==
    [op |-> "verify", req |-> [token |-> token], pc |-> "decode", session |-> session,
     open |-> TRUE, hashed |-> <<>>, status |-> 0, detail |-> "", tasks |-> <<>>,
     delivery |-> "none"]

(* verify_email up to the lookup of the user *)
verify_decode(q, t) ==
    LET d == jwt_decode(q.req.token, t)
    IN  IF d.raised THEN raise_exception(q, verify_email_except(d.exc))
        ELSE IF ~payload_verify(d.value) THEN raise_exception(q, InvalidTokenTypeException)
        ELSE LET email == payload_get(d.value, "sub")
             IN  IF email = None THEN raise_exception(q, InvalidTokenPayloadException)
                 ELSE IF get_first(q.session, email) = NoUser
                      THEN raise_exception(q, UserNotFoundException)
                      ELSE [q EXCEPT !.pc = "update"]

(* verify_email: user.is_verified = True and UserDAO.update; the route    *)
(* answers 200                                                            *)
verify_update(q) ==
    LET user == get_first(q.session, q.req.token.payload.sub)
    IN  [q EXCEPT !.session = DAO_update(@, [user EXCEPT !.is_verified = TRUE]),
                  !.status = 200, !.pc = "respond"]

(* the verification tokens a client presents: a live one for each email   *)
(* and an expired one                                                     *)
VerifyTokenChoices(t) ==
    { [sig |-> "valid",
       payload |-> [sub |-> e, verify |-> TRUE,
                    exp |-> t + email_verification_expires]] : e \in Emails }
    \cup { [sig |-> "valid",
            payload |-> [sub |-> "a@x.com", verify |-> TRUE, exp |-> t - 1]] }

(* a slot takes a new request when it holds none or the one it holds is   *)
(* over: answered, its session closed, its background task run            *)
Free(q) ==
    \/ q.pc = "idle"
    \/ (q.pc = "sent" /\ ~q.open /\ q.delivery # "pending")

RequestsInit ==
    /\ store \in Stores
    /\ now = 0
    /\ resp = NoExchange
    /\ kept = NoKept
    /\ inflight = NoRequests

RegisterBegin ==
    \E i \in Slots, e \in Emails, p \in Passwords :
        /\ Free(inflight[i])
        /\ inflight' = [inflight EXCEPT
                           ![i] = register_begin([email |-> e, password |-> p], store)]
        /\ UNCHANGED <<store, now, resp, kept>>

RegisterCheck ==
    \E i \in Slots :
        /\ inflight[i].op = "register"
        /\ inflight[i].pc = "check"
        /\ inflight' = [inflight EXCEPT
                           ![i] = register_check(@, datetime_now(now, 0))]
        /\ UNCHANGED <<store, now, resp, kept>>

RegisterHash ==
    \E i \in Slots, salt \in Salts :
        /\ inflight[i].op = "register"
        /\ inflight[i].pc = "hash"
        /\ inflight' = [inflight EXCEPT ![i] = register_hash(@, salt)]
        /\ UNCHANGED <<store, now, resp, kept>>

RegisterCreate ==
    \E i \in Slots :
        /\ inflight[i].op = "register"
        /\ inflight[i].pc = "create"
        /\ unique_index_free(inflight[i].req.email, OthersUncommitted(i))
        /\ inflight' = [inflight EXCEPT ![i] = register_create(@)]
        /\ UNCHANGED <<store, now, resp, kept>>

RegisterSchedule ==
    \E i \in Slots :
        /\ inflight[i].op = "register"
        /\ inflight[i].pc = "schedule"
        /\ inflight' = [inflight EXCEPT
                           ![i] = register_schedule(@, datetime_now(now, 0))]
        /\ UNCHANGED <<store, now, resp, kept>>

VerifyBegin ==
    \E i \in Slots, token \in VerifyTokenChoices(now) :
        /\ Free(inflight[i])
        /\ inflight' = [inflight EXCEPT ![i] = verify_begin(token, store)]
        /\ UNCHANGED <<store, now, resp, kept>>

VerifyDecode ==
    \E i \in Slots :
        /\ inflight[i].op = "verify"
        /\ inflight[i].pc = "decode"
        /\ inflight' = [inflight EXCEPT
                           ![i] = verify_decode(@, datetime_now(now, 0))]
        /\ UNCHANGED <<store, now, resp, kept>>

(* an UPDATE is sent only for a row whose flag changes *)
VerifyUpdate ==
    \E i \in Slots :
        /\ inflight[i].op = "verify"
        /\ inflight[i].pc = "update"
        /\ LET user == get_first(inflight[i].session, inflight[i].req.token.payload.sub)
           IN  user.is_verified \/ row_lock_free(user.id, OthersUncommitted(i))
        /\ inflight' = [inflight EXCEPT ![i] = verify_update(@)]
        /\ UNCHANGED <<store, now, resp, kept>>

(* the response is sent *)
Respond ==
    \E i \in Slots :
        /\ inflight[i].pc = "respond"
        /\ inflight' = [inflight EXCEPT ![i].pc = "sent"]
        /\ UNCHANGED <<store, now, resp, kept>>

(* get_async_session leaves its `async with` *)
CloseSession ==
    \E i \in Slots :
        /\ inflight[i].pc \in {"respond", "sent"}
        /\ inflight[i].open
        /\ store' = get_async_session_close(store, inflight[i].session)
        /\ inflight' = [inflight EXCEPT ![i].open = FALSE, ![i].session = {}]
        /\ UNCHANGED <<now, resp, kept>>

(* the background task runs: send_verification_email calls send_email *)
Deliver ==
    \E i \in Slots, smtp \in {"accepted", "refused"} :
        /\ inflight[i].pc = "sent"
        /\ inflight[i].delivery = "pending"
        /\ inflight' = [inflight EXCEPT
                           ![i].delivery = send_email(inflight[i].tasks[1].email, smtp)]
        /\ UNCHANGED <<store, now, resp, kept>>

RequestsNext ==
    \/ RegisterBegin
    \/ RegisterCheck
    \/ RegisterHash
    \/ RegisterCreate
    \/ RegisterSchedule
    \/ VerifyBegin
    \/ VerifyDecode
    \/ VerifyUpdate
    \/ Respond
    \/ CloseSession
    \/ Deliver

SpecRequests == RequestsInit /\ [][RequestsNext]_vars

TypeOK ==
    /\ store \in Stores
    /\ now \in 0..MaxTime
    /\ resp.status \in {0, 200, 201, 204, 400, 401, 403, 404, 409, 500}

-----------------------------------------------------------------------------
(* Properties *)

(* C1: a Register(e, p) that succeeded (201) is followed, in a later      *)
(* request, by UserExists (409) for every Register(e, p') with the same   *)
(* email.                                                                  *)
C1_SecondRegisterConflicts ==
    [][ ( /\ resp.op = "register" /\ resp.status = 201
          /\ resp' # resp
          /\ resp'.op = "register" /\ resp'.req.email = resp.req.email )
        => ( /\ resp'.status = 409
             /\ resp'.detail = "User already exists"
             /\ Cardinality({u \in store' : u.email = resp.req.email}) = 1 ) ]_vars

(* C2: Login answers 401 "Invalid credentials", with no token in the body *)
(* and no cookie, when no user has the email, when the stored hash is     *)
(* empty and when the password does not match the stored hash.            *)
C2_LoginFailsUniformly ==
    resp.op = "login" =>
        LET user == get_first(store, resp.req.username)
        IN  ( \/ user = NoUser
              \/ user.password = <<>>
              \/ ~pwd_context_verify(resp.req.password, user.password) )
            => ( /\ resp.status = 401
                 /\ resp.detail = "Invalid credentials"
                 /\ resp.body = NoBody
                 /\ resp.cookies = <<>> )

C2_Witness ==
    /\ resp.op = "login"
    /\ resp.status = 401
    /\ \E u \in store : u.email = resp.req.username /\ u.password = <<>>

(* C3: the profile request is answered 200 only if the bearer token is    *)
(* validly signed, unexpired and names a user whose is_verified is true;  *)
(* if it names a user whose is_verified is false the answer is 403        *)
(* "Verification required".                                               *)
C3_ProfileRequiresVerified ==
    resp.op = "profile" =>
        LET tok == resp.req.authorization
            names(u) == /\ tok # NoToken
                        /\ tok.sig = "valid"
                        /\ "sub" \in DOMAIN tok.payload
                        /\ tok.payload.sub = u.email
                        /\ tok.payload.exp > resp.at
        IN  /\ resp.status = 200 => \E u \in store : names(u) /\ u.is_verified
            /\ \A u \in store :
                 (names(u) /\ ~u.is_verified)
                 => (resp.status = 403 /\ resp.detail = "Verification required")

C3_Witness ==
    /\ resp.op = "profile"
    /\ resp.status = 403
    /\ resp.req.authorization.sig = "valid"
    /\ \E u \in store : u.email = resp.req.authorization.payload.sub /\ ~u.is_verified

(* C4: Login with the stored password answers 200 with an access and a    *)
(* refresh token and sets both cookies, whatever is_verified is; Login    *)
(* never answers 403.                                                     *)
C4_LoginIgnoresVerification ==
    resp.op = "login" =>
        LET user == get_first(store, resp.req.username)
        IN  /\ resp.status # 403
            /\ ( /\ user # NoUser
                 /\ user.password # <<>>
                 /\ pwd_context_verify(resp.req.password, user.password) )
               => ( /\ resp.status = 200
                    /\ resp.body.access_token.sig = "valid"
                    /\ resp.body.refresh_token.sig = "valid"
                    /\ resp.body.user_data.is_verified = user.is_verified
                    /\ {c.key : c \in {resp.cookies[i] : i \in DOMAIN resp.cookies}}
                         = {"access_token", "refresh_token"}
                    /\ \A i \in DOMAIN resp.cookies : resp.cookies[i].value # NoToken )

C4_Witness ==
    /\ resp.op = "login"
    /\ resp.status = 200
    /\ resp.body.user_data.is_verified = FALSE
    /\ Len(resp.cookies) = 2

(* C5: a profile request that carries a validly signed, unexpired access  *)
(* token of a stored user in the access_token cookie only is answered as  *)
(* the request that carries the same token in the Authorization header.   *)
C5_CookieCarrierResolves ==
    resp.op = "profile" =>
        LET c == resp.req.cookies.access_token
            viaHeader == get_user_handler(
                [authorization |-> c, cookies |-> [access_token |-> NoToken]],
                store, resp.at)
        IN  ( /\ resp.req.authorization = NoToken
              /\ c # NoToken
              /\ c.sig = "valid"
              /\ c.payload.exp > resp.at
              /\ "sub" \in DOMAIN c.payload
              /\ \E u \in store : u.email = c.payload.sub )
            => (resp.status = viaHeader.status /\ resp.body = viaHeader.body)

C7_ResolverRejectsOtherKinds ==
    [][ LET tok == resp'.req.authorization
        IN  ( /\ now' = now
              /\ resp'.op = "profile"
              /\ tok # NoToken
              /\ \/ ( /\ resp.op = "login" /\ resp.status = 200
                      /\ tok = resp.body.refresh_token )
                 \/ ( /\ tok.sig = "valid"
                      /\ tok.payload.exp > now
                      /\ "verify" \in DOMAIN tok.payload
                      /\ tok.payload.verify = TRUE ) )
            => ( /\ resp'.status = 401
                 /\ resp'.detail = "Could not validate credentials" ) ]_vars

(* C8: a Refresh whose refresh_token cookie holds the access token that a *)
(* Login has just returned, or a validly signed, unexpired verification   *)
(* token of a stored user, fails with 401 "Invalid refresh token" and     *)
(* mints nothing.                                                         *)
C8_RefreshRejectsOtherKinds ==
    [][ LET tok == resp'.req.cookies.refresh_token
        IN  ( /\ now' = now
              /\ resp'.op = "refresh"
              /\ tok # NoToken
              /\ \/ ( /\ resp.op = "login" /\ resp.status = 200
                      /\ tok = resp.body.access_token )
                 \/ ( /\ tok.sig = "valid"
                      /\ tok.payload.exp > now
                      /\ "verify" \in DOMAIN tok.payload
                      /\ tok.payload.verify = TRUE
                      /\ "sub" \in DOMAIN tok.payload
                      /\ \E u \in store : u.email = tok.payload.sub ) )
            => ( /\ resp'.status = 401
                 /\ resp'.detail = "Invalid refresh token"
                 /\ resp'.body = NoBody
                 /\ resp'.cookies = <<>> ) ]_vars

(* C9: Verify-email answers 400 "Invalid token type" to every validly     *)
(* signed, unexpired token without a true verify claim, and that request  *)
(* leaves the users table as it was.                                      *)
C9_VerifyRejectsUnmarked ==
    [][ LET tok == resp'.req.token
        IN  ( /\ now' = now
              /\ resp'.op = "verify"
              /\ tok.sig = "valid"
              /\ tok.payload.exp > now
              /\ ~("verify" \in DOMAIN tok.payload /\ tok.payload.verify = TRUE) )
            => ( /\ resp'.status = 400
                 /\ resp'.detail = "Invalid token type"
                 /\ store' = store ) ]_vars

C9_Witness ==
    /\ resp.op = "verify"
    /\ resp.status = 400
    /\ resp.detail = "Invalid token type"
    /\ resp.req.token.sig = "valid"
    /\ resp.req.token.payload.exp > resp.at
    /\ "verify" \notin DOMAIN resp.req.token.payload
    /\ "sub" \in DOMAIN resp.req.token.payload
    /\ \E u \in store : u.email = resp.req.token.payload.sub /\ ~u.is_verified

(* C10: Verify-email answers 400 "Token expired" to every validly signed  *)
(* token whose expiry has passed, never "Token expired" to a token with a *)
(* bad signature or a malformed one, and changes no user in either case.  *)
C10_ExpiredIsDistinct ==
    [][ LET tok == resp'.req.token
        IN  (now' = now /\ resp'.op = "verify")
            => /\ (tok.sig = "valid" /\ tok.payload.exp <= now)
                  => ( /\ resp'.status = 400
                       /\ resp'.detail = "Token expired"
                       /\ store' = store )
               /\ tok.sig # "valid"
                  => ( /\ resp'.detail # "Token expired"
                       /\ resp'.status # 200
                       /\ store' = store ) ]_vars

C10_Witness ==
    /\ resp.op = "verify"
    /\ resp.status = 400
    /\ resp.detail = "Token expired"
    /\ resp.req.token.sig = "valid"
    /\ resp.req.token.payload.exp <= resp.at
    /\ "verify" \notin DOMAIN resp.req.token.payload

(* C11: Verify-email answers 400 "Invalid token payload" to a validly     *)
(* signed, unexpired token that carries verify = true and no subject, and *)
(* that request changes no user.                                          *)
C11_VerifyNeedsSubject ==
    [][ LET tok == resp'.req.token
        IN  ( /\ now' = now
              /\ resp'.op = "verify"
              /\ tok.sig = "valid"
              /\ tok.payload.exp > now
              /\ "verify" \in DOMAIN tok.payload
              /\ tok.payload.verify = TRUE
              /\ "sub" \notin DOMAIN tok.payload )
            => ( /\ resp'.status = 400
                 /\ resp'.detail = "Invalid token payload"
                 /\ store' = store ) ]_vars

C11_Witness ==
    /\ resp.op = "verify"
    /\ resp.status = 400
    /\ resp.detail = "Invalid token payload"
    /\ resp.req.token.sig = "valid"
    /\ "sub" \notin DOMAIN resp.req.token.payload
    /\ \E u \in store : ~u.is_verified

(* C12: Verify-email answers 404 "User not found" to an otherwise valid   *)
(* verification token whose subject is the email of no user, and that     *)
(* request leaves the users table as it was.                              *)
C12_VerifyUnknownUser ==
    [][ LET tok == resp'.req.token
        IN  ( /\ now' = now
              /\ resp'.op = "verify"
              /\ tok.sig = "valid"
              /\ tok.payload.exp > now
              /\ "verify" \in DOMAIN tok.payload
              /\ tok.payload.verify = TRUE
              /\ "sub" \in DOMAIN tok.payload
              /\ \A u \in store : u.email # tok.payload.sub )
            => ( /\ resp'.status = 404
                 /\ resp'.detail = "User not found"
                 /\ store' = store ) ]_vars

C12_Witness ==
    /\ resp.op = "verify"
    /\ resp.status = 404
    /\ resp.detail = "User not found"
    /\ resp.req.token.payload.sub = "b@x.com"
    /\ \E u \in store : u.email = "a@x.com"

(* C13: every Verify-email with a valid, unexpired verification token of  *)
(* a stored user succeeds and leaves that user's is_verified true in the  *)
(* users table; a second call with the same token succeeds again and      *)
(* leaves the table as the first call left it.                            *)
C13_VerifyIdempotent ==
    [][ LET tok == resp'.req.token
        IN  ( /\ now' = now
              /\ resp'.op = "verify"
              /\ tok.sig = "valid"
              /\ tok.payload.exp > now
              /\ "verify" \in DOMAIN tok.payload
              /\ tok.payload.verify = TRUE
              /\ "sub" \in DOMAIN tok.payload
              /\ \E u \in store : u.email = tok.payload.sub )
            => ( /\ resp'.status = 200
                 /\ \A u \in store' : u.email = tok.payload.sub => u.is_verified
                 /\ (resp.op = "verify" /\ resp.status = 200 /\ resp.req = resp'.req)
                    => store' = store ) ]_vars

(* C14: Refresh answers 401 "Invalid refresh token" when the request has  *)
(* no refresh_token cookie, or the cookie is malformed, or its signature  *)
(* is bad, or it has expired; the response then carries no token and      *)
(* sets no cookie.                                                        *)
C14_RefreshRejects ==
    [][ LET c == resp'.req.cookies.refresh_token
        IN  ( /\ now' = now
              /\ resp'.op = "refresh"
              /\ IF c = NoToken THEN TRUE
                 ELSE \/ c.sig = "malformed"
                      \/ c.sig = "bad"
                      \/ ("exp" \in DOMAIN c.payload /\ c.payload.exp <= now) )
            => ( /\ resp'.status = 401
                 /\ resp'.detail = "Invalid refresh token"
                 /\ resp'.body = NoBody
                 /\ resp'.cookies = <<>>
                 /\ store' = store ) ]_vars

(* an expired refresh token of a stored user was refused *)
C14_Witness ==
    /\ resp.op = "refresh"
    /\ resp.status = 401
    /\ resp.req.cookies.refresh_token # NoToken
    /\ resp.req.cookies.refresh_token.sig = "valid"
    /\ resp.req.cookies.refresh_token.payload.exp = resp.at - 1
    /\ "sub" \in DOMAIN resp.req.cookies.refresh_token.payload
    /\ \E u \in store : u.email = resp.req.cookies.refresh_token.payload.sub

(* C15: a Refresh that succeeds answers for the user stored under the     *)
(* presented token's subject: the body carries an access and a refresh    *)
(* token minted at the time of the request with that subject, the two     *)
(* cookies carry exactly those tokens, and user_data is the id, email and *)
(* is_verified of the stored row.                                         *)
C15_RefreshMintsPair ==
    [][ ( /\ now' = now
          /\ resp'.op = "refresh"
          /\ resp'.status = 200 )
        => LET c == resp'.req.cookies.refresh_token
               b == resp'.body
           IN  /\ c # NoToken
               /\ "sub" \in DOMAIN c.payload
               /\ \E u \in store :
                     /\ u.email = c.payload.sub
                     /\ b.user_data = [id |-> u.id, email |-> u.email,
                                       is_verified |-> u.is_verified]
               /\ b.access_token =
                     [sig |-> "valid",
                      payload |-> [sub |-> c.payload.sub,
                                   exp |-> now + access_token_expires]]
               /\ b.refresh_token =
                     [sig |-> "valid",
                      payload |-> [sub |-> c.payload.sub,
                                   exp |-> now + refresh_token_expires]]
               /\ b.token_type = "bearer"
               /\ Len(resp'.cookies) = 2
               /\ resp'.cookies[1].key = "access_token"
               /\ resp'.cookies[1].value = b.access_token
               /\ resp'.cookies[2].key = "refresh_token"
               /\ resp'.cookies[2].value = b.refresh_token ]_vars

(* a refresh token with the access lifetime left was exchanged by a       *)
(* verified user at time 1                                                *)
C15_Witness ==
    /\ resp.op = "refresh"
    /\ resp.status = 200
    /\ resp.at = 1
    /\ resp.req.cookies.refresh_token.payload.exp = resp.at + access_token_expires
    /\ resp.body.refresh_token # resp.req.cookies.refresh_token
    /\ resp.body.user_data.is_verified

(* C17: Logout answers 204 whatever cookies the request carries and       *)
(* whatever the users table holds, deletes the access_token and the       *)
(* refresh_token cookie, and leaves the users table as it was.            *)
C17_LogoutAlwaysSucceeds ==
    [][ (now' = now /\ resp'.op = "logout")
        => ( /\ resp'.status = 204
             /\ resp'.body = NoBody
             /\ Len(resp'.cookies) = 2
             /\ resp'.cookies[1] = [key |-> "access_token", value |-> NoToken, max_age |-> 0]
             /\ resp'.cookies[2] = [key |-> "refresh_token", value |-> NoToken, max_age |-> 0]
             /\ store' = store ) ]_vars

(* a logout carrying junk cookies, with no user stored *)
C17_Witness ==
    /\ resp.op = "logout"
    /\ resp.status = 204
    /\ resp.req.cookies.refresh_token = Garbage
    /\ store = {}

(* C18: a Login that succeeds carries in its body an access and a refresh *)
(* token whose subject is the email logged in with, token_type "bearer"   *)
(* and the id, email and is_verified of the stored user; the access_token *)
(* and refresh_token cookies carry exactly those tokens, each with the    *)
(* lifetime of its token as max-age.                                      *)
C18_LoginOutput ==
    [][ ( /\ now' = now
          /\ resp'.op = "login"
          /\ resp'.status = 200 )
        => LET b == resp'.body
               e == resp'.req.username
           IN  /\ b.access_token.sig = "valid"
               /\ b.access_token.payload.sub = e
               /\ b.refresh_token.sig = "valid"
               /\ b.refresh_token.payload.sub = e
               /\ b.token_type = "bearer"
               /\ \E u \in store :
                     /\ u.email = e
                     /\ b.user_data = [id |-> u.id, email |-> u.email,
                                       is_verified |-> u.is_verified]
               /\ Len(resp'.cookies) = 2
               /\ resp'.cookies[1].key = "access_token"
               /\ resp'.cookies[1].value = b.access_token
               /\ resp'.cookies[1].max_age = b.access_token.payload.exp - now
               /\ resp'.cookies[1].max_age = access_token_expires
               /\ resp'.cookies[2].key = "refresh_token"
               /\ resp'.cookies[2].value = b.refresh_token
               /\ resp'.cookies[2].max_age = b.refresh_token.payload.exp - now
               /\ resp'.cookies[2].max_age = refresh_token_expires ]_vars

C18_Witness ==
    /\ resp.op = "login"
    /\ resp.status = 200
    /\ resp.at = 1
    /\ resp.req.username = "b@x.com"
    /\ resp.body.access_token # resp.body.refresh_token

(* C19: each consumer of a token (the profile's identity resolution,      *)
(* Refresh, Verify-email) checks the expiry when it decodes: a validly    *)
(* signed token whose expiry is one unit before the time of the request   *)
(* is rejected as expired, one whose expiry is one unit after it and that *)
(* is otherwise acceptable is accepted, and a token that a request        *)
(* rejected as expired is not accepted by the next request presenting it. *)
C19_ExpiryBoundary ==
    [][ ( /\ now' = now
          /\ resp'.op \in {"profile", "refresh", "verify"} )
        => LET op  == resp'.op
               tok == IF op = "profile" THEN resp'.req.authorization
                      ELSE IF op = "refresh" THEN resp'.req.cookies.refresh_token
                      ELSE resp'.req.token
               old == IF resp.op = "profile" THEN resp.req.authorization
                      ELSE IF resp.op = "refresh" THEN resp.req.cookies.refresh_token
                      ELSE IF resp.op = "verify" THEN resp.req.token
                      ELSE NoToken
               rejected ==
                   /\ store' = store
                   /\ IF op = "profile"
                      THEN resp'.status = 401
                           /\ resp'.detail = "Could not validate credentials"
                      ELSE IF op = "refresh"
                      THEN resp'.status = 401
                           /\ resp'.detail = "Invalid refresh token"
                      ELSE resp'.status = 400 /\ resp'.detail = "Token expired"
               acceptable ==
                   /\ "sub" \in DOMAIN tok.payload
                   /\ \E u \in store :
                         /\ u.email = tok.payload.sub
                         /\ (op = "profile") => u.is_verified
                   /\ (op = "verify")
                         => ("verify" \in DOMAIN tok.payload /\ tok.payload.verify = TRUE)
           IN  (tok # NoToken /\ tok.sig = "valid")
               => /\ (tok.payload.exp = now - 1) => rejected
                  /\ (tok.payload.exp = now + 1 /\ acceptable) => resp'.status = 200
                  /\ (old = tok /\ tok.payload.exp <= resp.at) => rejected ]_vars

(* the access token of a verified user, expired one unit before the       *)
(* request, was refused by the profile                                    *)
C19_Witness ==
    /\ resp.op = "profile"
    /\ resp.status = 401
    /\ resp.at = 1
    /\ resp.req.authorization # NoToken
    /\ resp.req.authorization.sig = "valid"
    /\ resp.req.authorization.payload.exp = resp.at - 1
    /\ "sub" \in DOMAIN resp.req.authorization.payload
    /\ \E u \in store : u.email = resp.req.authorization.payload.sub /\ u.is_verified

(* C16: a refresh token the service issued earlier and that has not       *)
(* expired is accepted by Refresh whatever successful Refreshes and       *)
(* Logouts were served since it was issued, and the Refresh answers with  *)
(* a pair minted at the time of the request.                              *)
C16_RotationDoesNotRevoke ==
    [][ ( /\ now' = now
          /\ resp'.op = "refresh"
          /\ kept.token # NoToken
          /\ resp'.req.cookies.refresh_token = kept.token
          /\ kept.token.payload.exp > now )
        => ( /\ resp'.status = 200
             /\ resp'.body.access_token =
                   [sig |-> "valid",
                    payload |-> [sub |-> kept.token.payload.sub,
                                 exp |-> now + access_token_expires]]
             /\ resp'.body.refresh_token =
                   [sig |-> "valid",
                    payload |-> [sub |-> kept.token.payload.sub,
                                 exp |-> now + refresh_token_expires]] ) ]_vars

(* the kept token was exchanged again after another refresh or logout,    *)
(* for a refresh token that is not the kept one                           *)
C16_Witness ==
    /\ resp.op = "refresh"
    /\ resp.status = 200
    /\ kept.token # NoToken
    /\ resp.req.cookies.refresh_token = kept.token
    /\ kept.since >= 2
    /\ resp.body.refresh_token # kept.token

(* C20: the exp claim of the token create_email_verification_token        *)
(* makes for an email and a lifetime is exactly the creation time plus    *)
(* the lifetime, and decoding the token before that time recovers         *)
(* sub = email and verify = true.                                         *)
C20_RoundTripExact ==
    /\ resp.op = "create"
          => resp.body.payload.exp * Resolution
                = resp.req.utcnow + resp.req.expires_delta
    /\ (resp.op = "decode"
        /\ resp.req.utcnow < resp.req.created + resp.req.expires_delta)
          => ( /\ ~resp.body.raised
               /\ resp.body.value.sub = resp.req.email
               /\ resp.body.value.verify = TRUE )

(* C20, amended: the exp claim is the creation time plus the lifetime     *)
(* with the fraction of the unit dropped, so it is at most the exact      *)
(* expiry and less than one unit before it; decoding the token before     *)
(* the exp claim recovers sub = email and verify = true.                  *)
C20_RoundTripTruncated ==
    /\ resp.op = "create"
          => LET exact == resp.req.utcnow + resp.req.expires_delta
                 exp == resp.body.payload.exp
             IN  /\ resp.body.sig = "valid"
                 /\ exp * Resolution <= exact
                 /\ exact < (exp + 1) * Resolution
    /\ (resp.op = "decode"
        /\ resp.req.utcnow < resp.req.token.payload.exp * Resolution)
          => ( /\ ~resp.body.raised
               /\ resp.body.value.sub = resp.req.email
               /\ resp.body.value.verify = TRUE )

(* a token made off the unit was decoded later, before its exp claim *)
C20_Witness ==
    /\ resp.op = "decode"
    /\ ~resp.body.raised
    /\ resp.req.created % Resolution # 0
    /\ resp.req.utcnow > resp.req.created
    /\ resp.body.value.sub = "b@x.com"

(* C23: in the users table as any request leaves it, a row that was not   *)
(* there before is the row Register created for the email it was given,   *)
(* with is_verified and is_superuser false; a row changes only in that    *)
(* its is_verified goes from false to true, and only in a Verify-email    *)
(* that succeeded with a token whose subject is the row's email; a row    *)
(* with is_verified true is still there with is_verified true.            *)
C23_VerificationLifecycle ==
    [][ ( /\ now' = now
          /\ resp'.op \in {"register", "login", "refresh", "logout", "verify", "profile"} )
        => /\ \A u \in resp'.session \cup store' :
                 u \notin store
                 => \/ /\ \A w \in store : w.id # u.id
                       /\ resp'.op = "register"
                       /\ resp'.status = 201
                       /\ u.email = resp'.req.email
                       /\ ~u.is_verified
                       /\ ~u.is_superuser
                    \/ \E w \in store :
                          /\ w.id = u.id
                          /\ ~w.is_verified
                          /\ u = [w EXCEPT !.is_verified = TRUE]
                          /\ resp'.op = "verify"
                          /\ resp'.status = 200
                          /\ resp'.req.token.payload.sub = u.email
           /\ \A w \in store :
                 w.is_verified
                 => /\ \E u \in resp'.session : u.id = w.id /\ u.is_verified
                    /\ \E u \in store' : u.id = w.id /\ u.is_verified ]_vars

(* Register has created a row beside a verified one *)
C23_Witness ==
    /\ resp.op = "register"
    /\ resp.status = 201
    /\ \E u \in resp.session :
          /\ u \notin store
          /\ u.email = resp.req.email
          /\ ~u.is_verified
          /\ ~u.is_superuser
    /\ \E w \in store : w.is_verified

(* C24: after a Register(e, p) that answered 201, the next request, a     *)
(* Login with e, succeeds when it gives p and answers 401 "Invalid        *)
(* credentials" when it gives another password.                           *)
C24_CredentialsRoundTrip ==
    [][ ( /\ resp.op = "register"
          /\ resp.status = 201
          /\ now' = now
          /\ resp'.op = "login"
          /\ resp'.req.username = resp.req.email )
        => IF resp'.req.password = resp.req.password
           THEN resp'.status = 200
           ELSE resp'.status = 401 /\ resp'.detail = "Invalid credentials" ]_vars

(* C26: after a Verify-email that succeeded for a user, the next request, *)
(* a profile request with an unexpired access token of that user issued   *)
(* at or before the verification, answers 200.                            *)
C26_VerificationTakesEffect ==
    [][ LET tok == resp'.req.authorization
        IN  ( /\ resp.op = "verify"
              /\ resp.status = 200
              /\ now' = now
              /\ resp'.op = "profile"
              /\ tok # NoToken
              /\ tok.sig = "valid"
              /\ "sub" \in DOMAIN tok.payload
              /\ "verify" \notin DOMAIN tok.payload
              /\ tok.payload.sub = resp.req.token.payload.sub
              /\ tok.payload.exp > now
              /\ tok.payload.exp <= resp.at + access_token_expires )
            => resp'.status = 200 ]_vars

(* C28: Refresh either succeeds with a new token pair or answers 401      *)
(* "Invalid refresh token", whatever the refresh_token cookie holds.      *)
C28_RefreshTwoOutcomes ==
    [][ (now' = now /\ resp'.op = "refresh")
        => \/ /\ resp'.status = 200
              /\ resp'.body # NoBody
           \/ /\ resp'.status = 401
              /\ resp'.detail = "Invalid refresh token" ]_vars

(* C29: Login, Refresh, Logout and the profile request, successful or     *)
(* not, leave the users table as it was: the request's session holds no   *)
(* change when the handler returns and the table is the same after the    *)
(* request.                                                               *)
C29_ReadOnlyRequests ==
    [][ ( /\ now' = now
          /\ resp'.op \in {"login", "refresh", "logout", "profile"} )
        => ( /\ resp'.session = store
             /\ store' = store ) ]_vars

(* a Login succeeded over a table of two users *)
C29_Witness ==
    /\ resp.op = "login"
    /\ resp.status = 200
    /\ resp.session = store
    /\ Cardinality(store) = 2

C22_EmailUnique ==
    /\ \A u1, u2 \in store : u1.email = u2.email => u1 = u2
    /\ \A i \in Slots :
          \A u1, u2 \in inflight[i].session : u1.email = u2.email => u1 = u2
    /\ \A i, j \in Slots :
          i # j => \A u1 \in Uncommitted(inflight[i]), u2 \in Uncommitted(inflight[j]) :
                      u1.email # u2.email

(* two Registers of one email have both passed the existence check; one   *)
(* has created its row, the other is about to                             *)
C22_Witness ==
    /\ inflight[1].op = "register"
    /\ inflight[2].op = "register"
    /\ inflight[1].req.email = inflight[2].req.email
    /\ \E u \in Uncommitted(inflight[1]) : u.email = inflight[1].req.email
    /\ inflight[2].pc = "create"

(* C25: in a Register the password is hashed only after the existence     *)
(* check has passed, the row is created only with the hash made, the      *)
(* verification email is scheduled only with the row created, a Register  *)
(* that answers 201 has scheduled exactly one email, to the registered    *)
(* address, and one that answers 409 has made no hash, created no row and *)
(* scheduled no email.                                                    *)
C25_RegisterStepOrder ==
    [][ \A i \in Slots :
          LET q  == inflight[i]
              q2 == inflight'[i]
              created(r) == \E u \in r.session : u \notin store /\ u.email = r.req.email
          IN  (q2.op = "register")
              => /\ (q2.hashed # <<>> /\ (q.op # "register" \/ q.hashed = <<>>))
                       => ( /\ q.op = "register"
                            /\ q.pc = "hash"
                            /\ \A u \in q.session : u.email # q.req.email )
                 /\ (q2.open /\ created(q2))
                       => ( /\ q2.hashed # <<>>
                            /\ \E u \in q2.session :
                                  u.email = q2.req.email /\ u.password = q2.hashed )
                 /\ (q2.tasks # <<>> /\ (q.op # "register" \/ q.tasks = <<>>))
                       => ( /\ q.op = "register"
                            /\ q.open
                            /\ created(q) )
                 /\ (q2.status = 201)
                       => ( /\ Len(q2.tasks) = 1
                            /\ q2.tasks[1].email = q2.req.email
                            /\ q2.tasks[1].token.payload.sub = q2.req.email
                            /\ q2.tasks[1].token.payload.verify = TRUE )
                 /\ (q2.status # 201) => q2.tasks = <<>>
                 /\ (q2.status = 409)
                       => ( /\ q2.hashed = <<>>
                            /\ q2.open => q2.session = store ) ]_vars

(* a Register has answered 201 beside one that was rejected *)
C25_Witness ==
    \E i, j \in Slots :
        /\ inflight[i].op = "register"
        /\ inflight[i].status = 201
        /\ Len(inflight[i].tasks) = 1
        /\ inflight[j].op = "register"
        /\ inflight[j].status = 409
        /\ inflight[j].open

(* C27: of two Registers of the same email, not yet registered, each      *)
(* answers 201 or 409 and exactly one of them answers 201.                *)
C27_ExactlyOneSucceeds ==
    \A i, j \in Slots :
        ( /\ i # j
          /\ inflight[i].op = "register"
          /\ inflight[j].op = "register"
          /\ inflight[i].req.email = inflight[j].req.email
          /\ inflight[i].status # 0
          /\ inflight[j].status # 0
          /\ \A u \in store : u.email # inflight[i].req.email )
        => ( /\ inflight[i].status \in {201, 409}
             /\ inflight[j].status \in {201, 409}
             /\ (inflight[i].status = 201) # (inflight[j].status = 201) )

====
